---- MODULE Spec2Model ----
(***************************************************************************)
(* Model of libuf's chained hashmap (src/src/map.c): the bucket blob, the  *)
(* chain nodes on the heap, uf_hashmap_put, uf_hashmap_get and             *)
(* uf_hashmap_free, driven by arbitrary callers (Spec) and by the loop of  *)
(* test_map_null_zero (SpecSeq).                                           *)
(***************************************************************************)
EXTENDS Integers, Sequences, FiniteSets

(* ---- bounds of the model ---- *)
MaxNodes == 3      \* chain nodes calloc can hand out before it fails
MaxCount == 4      \* cap on buckets.current (a put is not issued beyond it,
                   \* so the unsigned counter never wraps)

(* ---- program constants ---- *)
UF_HASH_INITIAL_SIZE == 128
UF_HASH_FILL_NUM == 6          \* UF_HASH_FILL_RATE 0.6 = 6 / 10
UF_HASH_FILL_DEN == 10
UF_KEY_SET == 1
NULL == 0
TestPuts == 1000               \* loop bound of test_map_null_zero

\* Pointer-sized keys handed in by the callers: NULL, the key whose hash is
\* 1, and keys that share the buckets 0 and 1 of a 128 bucket table.
Keys == {0, 1, 128, 129, 257}
\* The value pointers they hand in: NULL and an allocated one.
Values == {0, 1}

VARIABLES blob, max, current, mask, next_resize, key_hash, key_compare,
          free_key, free_value,
          heap, status, last, calls, i

vars == <<blob, max, current, mask, next_resize, key_hash, key_compare,
          free_key, free_value,
          heap, status, last, calls, i>>

(* ---- bit operations on unsigned integers ---- *)
RECURSIVE BitAnd(_, _)
BitAnd(a, b) ==
    IF a = 0 \/ b = 0 THEN 0
    ELSE (a % 2) * (b % 2) + 2 * BitAnd(a \div 2, b \div 2)

RECURSIVE BitXor(_, _)
BitXor(a, b) ==
    IF a = 0 THEN b
    ELSE IF b = 0 THEN a
    ELSE ((a + b) % 2) + 2 * BitXor(a \div 2, b \div 2)

(* ---- nodes and references ---- *)
\* A calloc'ed UfHashmapNode.
EmptyNode == [key |-> NULL, value |-> NULL, next |-> NULL, hash |-> 0]

NullRef == <<"null", 0>>
BlobRef(b) == <<"blob", b>>
HeapRef(n) == <<"heap", n>>

\* buckets.blob[b].  The variable blob keeps the slots that were written;
\* every other slot of the max calloc'ed ones is still zeroed.
Slot(b) == IF b \in DOMAIN blob THEN blob[b] ELSE EmptyNode

Node(ref) == IF ref[1] = "blob" THEN Slot(ref[2]) ELSE heap[ref[2]]

\* The same node in a table given by its blob bl and its chain nodes hp.
NodeIn(bl, hp, ref) ==
    IF ref[1] = "heap" THEN hp[ref[2]]
    ELSE IF ref[2] \in DOMAIN bl THEN bl[ref[2]]
    ELSE EmptyNode

NextRef(ref) ==
    IF Node(ref).next = NULL THEN NullRef ELSE HeapRef(Node(ref).next)

(* ---- caller supplied functions ---- *)
uf_hashmap_simple_equal(a, b) == a = b

\* UF_PTR_TO_INT keeps the low 32 bits of the pointer; every key of Keys is
\* below 2^31 (the largest integer of the checker), so they are kept whole.
uf_hashmap_simple_hash(v) == v

compare(a, b) == uf_hashmap_simple_equal(a, b)

hash_fn(key) == uf_hashmap_simple_hash(key)

uf_hashmap_initial_bucket(hash) == BitAnd(hash, mask)

(* ---- uf_hashmap_put ---- *)
\* The walk of the chain: the first node whose hash field is 0 is claimed
\* (and counted), else the first node whose key compares equal.
RECURSIVE put_walk(_, _)
put_walk(ref, key) ==
    IF ref = NullRef THEN [candidate |-> NullRef, inc |-> FALSE]
    ELSE IF Node(ref).hash = 0 THEN [candidate |-> ref, inc |-> TRUE]
    ELSE IF compare(Node(ref).key, key) THEN [candidate |-> ref, inc |-> FALSE]
    ELSE put_walk(NextRef(ref), key)

encode_hash_raw(hash) == hash

encode_hash(hash) == BitXor(hash, UF_KEY_SET)

insert_bucket_keep_value(node, hash, key, value) ==
    [node EXCEPT !.hash = encode_hash(hash), !.key = key]

insert_bucket(node, hash, key, value) ==
    [node EXCEPT !.hash = encode_hash(hash), !.key = key, !.value = value]

Store(ref, node) ==
    IF ref[1] = "blob"
    THEN /\ blob' = [b \in DOMAIN blob \cup {ref[2]} |->
                        IF b = ref[2] THEN node ELSE blob[b]]
         /\ heap' = heap
    ELSE /\ heap' = [heap EXCEPT ![ref[2]] = node]
         /\ blob' = blob

Call(fn, arg) == [fn |-> fn, arg |-> arg]

Returned(op, key, value, ret, out) ==
    [op |-> op, key |-> key, value |-> value, ret |-> ret, out |-> out]

\* A candidate node was found: run the destructors and overwrite it.  With a
\* key destructor and no value destructor the code calls the NULL
\* free.value: undefined behaviour, which either kills the process or is
\* skipped by the build.
put_candidate(key, value, hash, w) ==
    LET old == Node(w.candidate)
        new == insert_bucket(old, hash, key, value)
    IN  /\ current' = current + (IF w.inc THEN 1 ELSE 0)
        /\ IF free_key
           THEN IF free_value
                THEN /\ calls' = <<Call("free.key", old.key),
                                   Call("free.value", old.value)>>
                     /\ Store(w.candidate, new)
                     /\ last' = Returned("put", key, value, TRUE, NULL)
                     /\ status' = status
                ELSE /\ calls' = <<Call("free.key", old.key),
                                   Call("null.call", old.value)>>
                     /\ \/ /\ status' = "crashed"
                           /\ last' = Returned("put", key, value, FALSE, NULL)
                           /\ UNCHANGED <<blob, heap>>
                        \/ /\ status' = status
                           /\ Store(w.candidate, new)
                           /\ last' = Returned("put", key, value, TRUE, NULL)
           ELSE /\ calls' = <<>>
                /\ Store(w.candidate, new)
                /\ last' = Returned("put", key, value, TRUE, NULL)
                /\ status' = status

\* The node calloc hands out: the lowest address not in use.
NewNodeId ==
    LET unused == (1..(Cardinality(DOMAIN heap) + 1)) \ DOMAIN heap
    IN  CHOOSE n \in unused : \A m \in unused : n <= m

\* No candidate: calloc a node and link it right after the root; calloc may
\* fail, and does when limit nodes are in use.
put_alloc_failed_counted(key, value) ==
    /\ last' = Returned("put", key, value, FALSE, NULL)
    /\ calls' = <<>>
    /\ current' = current + 1
    /\ UNCHANGED <<blob, heap, status>>

\* calloc returned NULL: put returns false before it links or counts.
put_alloc_failed(key, value) ==
    /\ last' = Returned("put", key, value, FALSE, NULL)
    /\ calls' = <<>>
    /\ UNCHANGED <<blob, heap, current, status>>

put_new(key, value, hash, bucket, limit) ==
    \/ put_alloc_failed(key, value)
    \/ /\ Cardinality(DOMAIN heap) < limit
       /\ LET id == NewNodeId
              candidate == [EmptyNode EXCEPT !.next = Slot(bucket).next]
          IN  /\ heap' = [n \in DOMAIN heap \cup {id} |->
                            IF n = id
                            THEN insert_bucket(candidate, hash, key, value)
                            ELSE heap[n]]
              /\ blob' = [b \in DOMAIN blob \cup {bucket} |->
                            IF b = bucket
                            THEN [Slot(bucket) EXCEPT !.next = id]
                            ELSE blob[b]]
       /\ current' = current + 1
       /\ last' = Returned("put", key, value, TRUE, NULL)
       /\ calls' = <<>>
       /\ status' = status

null_pair_never(key, value) == FALSE

\* "Ensure we have at least key *and* value together".
null_pair(key, value) == key = NULL /\ value = NULL

uf_hashmap_put(key, value, limit) ==
    /\ status = "live"
    /\ UNCHANGED <<max, mask, next_resize, key_hash, key_compare,
          free_key, free_value>>
    /\ IF null_pair(key, value)
       THEN /\ last' = Returned("put", key, value, TRUE, NULL)
            /\ calls' = <<>>
            /\ UNCHANGED <<blob, heap, current, status>>
       ELSE LET hash == hash_fn(key)
                bucket == uf_hashmap_initial_bucket(hash)
                w == put_walk(BlobRef(bucket), key)
            IN  IF w.candidate # NullRef
                THEN put_candidate(key, value, hash, w)
                ELSE put_new(key, value, hash, bucket, limit)

(* ---- uf_hashmap_get ---- *)
get_walk_first(bl, hp, ref, key) ==
    IF ref = NullRef THEN NULL ELSE NodeIn(bl, hp, ref).value

\* The loop of uf_hashmap_get over the chain that starts at ref.
RECURSIVE get_walk(_, _, _, _)
get_walk(bl, hp, ref, key) ==
    IF ref = NullRef THEN NULL
    ELSE LET node == NodeIn(bl, hp, ref)
         IN  IF compare(node.key, key) THEN node.value
             ELSE get_walk(bl, hp,
                           IF node.next = NULL THEN NullRef
                           ELSE HeapRef(node.next),
                           key)

\* uf_hashmap_get on the table with blob bl, chain nodes hp and mask m.
table_get(bl, hp, m, key) ==
    get_walk(bl, hp, BlobRef(BitAnd(hash_fn(key), m)), key)

uf_hashmap_get(key) == table_get(blob, heap, mask, key)

Get_counting(key) ==
    /\ status = "live"
    /\ last' = Returned("get", key, NULL, TRUE, uf_hashmap_get(key))
    /\ calls' = <<>>
    /\ current' = current + 1
    /\ UNCHANGED <<blob, max, mask, next_resize, key_hash, key_compare,
          free_key, free_value,
                   heap, status>>

Get(key) ==
    /\ status = "live"
    /\ last' = Returned("get", key, NULL, TRUE, uf_hashmap_get(key))
    /\ calls' = <<>>
    /\ UNCHANGED <<blob, max, current, mask, next_resize, key_hash, key_compare,
          free_key,
                   free_value, heap, status>>

(* ---- uf_hashmap_free ---- *)
RECURSIVE bucket_free_preorder(_)
bucket_free_preorder(n) ==
    IF n = NULL THEN <<>>
    ELSE (IF free_key THEN <<Call("free.key", heap[n].key)>> ELSE <<>>)
         \o (IF free_value THEN <<Call("free.value", heap[n].value)>> ELSE <<>>)
         \o <<Call("free.node", n)>>
         \o <<Call("read.next", n)>>
         \o bucket_free_preorder(heap[n].next)

\* bucket_free: the rest of the chain first (node->next is read for it),
\* then the destructors that are set, then the node itself.
RECURSIVE bucket_free(_)
bucket_free(n) ==
    IF n = NULL THEN <<>>
    ELSE <<Call("read.next", n)>>
         \o bucket_free(heap[n].next)
         \o (IF free_key THEN <<Call("free.key", heap[n].key)>> ELSE <<>>)
         \o (IF free_value THEN <<Call("free.value", heap[n].value)>> ELSE <<>>)
         \o <<Call("free.node", n)>>

\* The loop over the buckets lo..hi, in index order (split in halves to
\* keep the evaluation shallow).
RECURSIVE free_loop(_, _)
free_loop(lo, hi) ==
    IF lo > hi THEN <<>>
    ELSE IF lo = hi THEN bucket_free(Slot(lo).next)
    ELSE LET mid == (lo + hi) \div 2
         IN  free_loop(lo, mid) \o free_loop(mid + 1, hi)

uf_hashmap_free ==
    /\ status = "live"
    /\ calls' = free_loop(0, max - 1) \o <<Call("free.blob", 0), Call("free.self", 0)>>
    /\ blob' = <<>>
    /\ heap' = <<>>
    /\ status' = "freed"
    /\ last' = Returned("free", NULL, NULL, TRUE, NULL)
    /\ UNCHANGED <<max, current, mask, next_resize, key_hash, key_compare,
          free_key, free_value>>

\* uf_hashmap_free(NULL) returns at once.
uf_hashmap_free_null ==
    /\ status = "null"
    /\ last' = Returned("free", NULL, NULL, TRUE, NULL)
    /\ calls' = <<>>
    /\ UNCHANGED <<blob, max, current, mask, next_resize, key_hash,
                   key_compare, free_key, free_value, heap, status>>

(* ---- uf_hashmap_remove ---- *)
\* map.c has no uf_hashmap_remove; the test calls it.  It is taken from the
\* description of remove: the occupied slot whose key compares equal is
\* deleted, a root slot by being reset or by taking over the first chain
\* node, a chain node by being unlinked and freed.
Occupied(node) == node.hash # 0

Destroy(node) ==
    (IF free_key THEN <<Call("free.key", node.key)>> ELSE <<>>)
    \o (IF free_value THEN <<Call("free.value", node.value)>> ELSE <<>>)

\* The chain node after prev that is occupied and holds key, with the slot
\* that links to it.
RECURSIVE remove_walk(_, _)
remove_walk(prev, key) ==
    LET n == Node(prev).next
    IN  IF n = NULL THEN [prev |-> NullRef, node |-> NULL]
        ELSE IF Occupied(heap[n]) /\ compare(heap[n].key, key)
             THEN [prev |-> prev, node |-> n]
        ELSE remove_walk(HeapRef(n), key)

WithoutNode(n) == [m \in DOMAIN heap \ {n} |-> heap[m]]

uf_hashmap_remove(key) ==
    LET bucket == uf_hashmap_initial_bucket(hash_fn(key))
        root == Slot(bucket)
        w == remove_walk(BlobRef(bucket), key)
    IN  /\ status = "live"
        /\ UNCHANGED <<max, mask, next_resize, key_hash, key_compare,
          free_key, free_value, status>>
        /\ IF Occupied(root) /\ compare(root.key, key)
           THEN /\ IF root.next = NULL
                   THEN /\ blob' = [b \in DOMAIN blob \ {bucket} |-> blob[b]]
                        /\ heap' = heap
                        /\ calls' = Destroy(root)
                   ELSE /\ blob' = [blob EXCEPT ![bucket] = heap[root.next]]
                        /\ heap' = WithoutNode(root.next)
                        /\ calls' = Destroy(root)
                                      \o <<Call("free.node", root.next)>>
                /\ current' = current - 1
                /\ last' = Returned("remove", key, NULL, TRUE, NULL)
           ELSE IF w.node # NULL
           THEN /\ IF w.prev[1] = "blob"
                   THEN /\ blob' = [blob EXCEPT
                                      ![bucket].next = heap[w.node].next]
                        /\ heap' = WithoutNode(w.node)
                   ELSE /\ blob' = blob
                        /\ heap' = [m \in DOMAIN heap \ {w.node} |->
                                      IF m = w.prev[2]
                                      THEN [heap[m] EXCEPT
                                              !.next = heap[w.node].next]
                                      ELSE heap[m]]
                /\ calls' = Destroy(heap[w.node])
                              \o <<Call("free.node", w.node)>>
                /\ current' = current - 1
                /\ last' = Returned("remove", key, NULL, TRUE, NULL)
           ELSE /\ last' = Returned("remove", key, NULL, FALSE, NULL)
                /\ calls' = <<>>
                /\ UNCHANGED <<blob, heap, current>>

(* ---- what the table holds ---- *)
AllRefs == {BlobRef(b) : b \in 0..(max - 1)} \cup {HeapRef(n) : n \in DOMAIN heap}

\* A slot that was given an entry: every chain node, and a root slot that is
\* not in its calloc'ed state (a stored NULL key has the hash field 1).
HoldsEntry(ref) ==
    \/ ref[1] = "heap"
    \/ Node(ref).hash # 0
    \/ Node(ref).key # NULL

Entries == {ref \in AllRefs : HoldsEntry(ref)}

\* The slot uf_hashmap_get answers from.
RECURSIVE key_walk(_, _)
key_walk(ref, key) ==
    IF ref = NullRef THEN NullRef
    ELSE IF compare(Node(ref).key, key) THEN ref
    ELSE key_walk(NextRef(ref), key)

KeyRef(key) ==
    key_walk(BlobRef(uf_hashmap_initial_bucket(hash_fn(key))), key)

SlotHash(key) == IF KeyRef(key) = NullRef THEN 0 ELSE Node(KeyRef(key)).hash

CallCount(cs, fn, arg) ==
    Cardinality({j \in 1..Len(cs) : cs[j].fn = fn /\ cs[j].arg = arg})

PutReturned(l) ==
    l.op = "put" /\ l.ret /\ ~(l.key = NULL /\ l.value = NULL)

(* ---- properties ---- *)

\* C1: a get of k issued right after a put(k, v) that returned true, with k
\* and v not both NULL, returns v.
C1_RoundTrip ==
    (status = "live" /\ PutReturned(last))
        => uf_hashmap_get(last.key) = last.value

\* C1 witness: a put that returned true stored a non-NULL value in a chain
\* node and get returns it.
C1_Witness ==
    /\ status = "live"
    /\ PutReturned(last)
    /\ last.value # NULL
    /\ KeyRef(last.key)[1] = "heap"
    /\ uf_hashmap_get(last.key) = last.value

\* C2: once k is held, a later put of a key that is not equal to k leaves
\* the answer of get(k) as it was.
C2_Reachability ==
    [][\A k \in Keys :
          ( /\ status = "live"
            /\ \E ref \in Entries : compare(Node(ref).key, k)
            /\ status' = "live"
            /\ PutReturned(last')
            /\ ~compare(last'.key, k) )
          => uf_hashmap_get(k)' = uf_hashmap_get(k)]_vars

\* C3: no two slots, root or chained, hold keys that compare equal.
C3_NoDuplicates ==
    status = "live" =>
        \A r1 \in Entries : \A r2 \in Entries :
            r1 # r2 => ~compare(Node(r1).key, Node(r2).key)

\* C4: buckets.current is the number of slots that hold an entry.
C4_CountAccuracy ==
    status = "live" => current = Cardinality(Entries)

\* C5: the hash field of a slot is 0 exactly when the slot was never given
\* an entry, and a slot that holds an entry has the low bit of it set.
C5_Occupancy ==
    status = "live" =>
        \A ref \in AllRefs :
            /\ (Node(ref).hash = 0) <=> ~HoldsEntry(ref)
            /\ HoldsEntry(ref) => Node(ref).hash % 2 = 1

\* C6: a key whose hash is 0 is stored with a hash field that is not 0, and
\* a later put of a different key neither claims its slot nor changes what
\* get returns for it.
C6_HashZero ==
    [][\A k \in Keys : hash_fn(k) = 0 =>
          /\ ( /\ status' = "live"
               /\ PutReturned(last')
               /\ last'.key = k )
             => /\ SlotHash(k)' # 0
                /\ uf_hashmap_get(k)' = last'.value
          /\ ( /\ SlotHash(k) # 0
               /\ last'.op = "put"
               /\ last'.key # k )
             => /\ KeyRef(k)' = KeyRef(k)
                /\ Node(KeyRef(k)).key' = Node(KeyRef(k)).key
                /\ Node(KeyRef(k)).value' = Node(KeyRef(k)).value
                /\ Node(KeyRef(k)).hash' = Node(KeyRef(k)).hash
                /\ uf_hashmap_get(k)' = uf_hashmap_get(k)]_vars

\* C6 witness: the key of hash 0 is held with a value, and the put of
\* another key of its bucket has just returned.
C6_Witness ==
    /\ status = "live"
    /\ SlotHash(0) # 0
    /\ uf_hashmap_get(0) # NULL
    /\ PutReturned(last)
    /\ last.key = 128

\* C8: remove(k) of a key the table holds returns true and get(k) is NULL
\* right after it; a key that is not held stays so through the remove of
\* another key, and its put is a fresh insertion that adds one to current.
C8_Removal ==
    [][\A k \in Keys :
          LET held == \E ref \in Entries : compare(Node(ref).key, k)
          IN  /\ ( /\ status = "live"
                   /\ held
                   /\ last'.op = "remove"
                   /\ last'.key = k )
                 => /\ last'.ret
                    /\ uf_hashmap_get(k)' = NULL
                    /\ ~\E ref \in Entries' : compare(Node(ref)'.key, k)
              /\ ( /\ status = "live"
                   /\ ~held
                   /\ last'.op = "remove"
                   /\ last'.key # k )
                 => uf_hashmap_get(k)' = NULL
              /\ ( /\ status = "live"
                   /\ ~held
                   /\ status' = "live"
                   /\ PutReturned(last')
                   /\ last'.key = k )
                 => current' = current + 1]_vars

\* C9: a put that replaces the entry of an equal key calls each destructor
\* that is set exactly once, on the displaced key or value, and does not
\* call the value destructor on the value it stores.
C9_OverwriteDestructors ==
    [][\A k \in Keys :
          ( /\ status = "live"
            /\ (free_key \/ free_value)
            /\ \E ref \in Entries : compare(Node(ref).key, k)
            /\ status' = "live"
            /\ PutReturned(last')
            /\ last'.key = k )
          => LET old == Node(KeyRef(k))
             IN  /\ free_key =>
                      /\ CallCount(calls', "free.key", old.key) = 1
                      /\ \A j \in 1..Len(calls') :
                            calls'[j].fn = "free.key" => calls'[j].arg = old.key
                 /\ free_value =>
                      /\ CallCount(calls', "free.value", old.value) = 1
                      /\ \A j \in 1..Len(calls') :
                            calls'[j].fn = "free.value" => calls'[j].arg = old.value
                 /\ \A j \in 1..Len(calls') :
                       calls'[j].fn \in {"free.key", "free.value"}]_vars

\* C10: uf_hashmap_free calls each destructor that is set once for every
\* entry the table holds, root or chained, and on nothing else.
C10_Destruction ==
    [][(status = "live" /\ last'.op = "free")
          => /\ free_key => \A k \in Keys :
                   CallCount(calls', "free.key", k)
                     = Cardinality({ref \in Entries : Node(ref).key = k})
             /\ free_value => \A v \in Values :
                   CallCount(calls', "free.value", v)
                     = Cardinality({ref \in Entries : Node(ref).value = v})
             /\ ~free_key => \A j \in 1..Len(calls') : calls'[j].fn # "free.key"
             /\ ~free_value => \A j \in 1..Len(calls') : calls'[j].fn # "free.value"]_vars

\* C7: a put that returns leaves current below next_resize, which is
\* floor(max * 0.6), and a put that takes current to next_resize doubles max.
C7_Growth ==
    [][(status' = "live" /\ PutReturned(last'))
          => /\ current' < next_resize'
             /\ next_resize' = (max' * UF_HASH_FILL_NUM) \div UF_HASH_FILL_DEN
             /\ mask' = max' - 1
             /\ (current' = current + 1 /\ current + 1 >= next_resize)
                   => max' = 2 * max]_vars

\* C11: a put whose calloc fails returns false and leaves every slot, every
\* chain node and link, current and max as they were, and calls nothing.
C11_AllocFailure ==
    [][(status' = "live" /\ last'.op = "put" /\ ~last'.ret)
          => /\ UNCHANGED <<blob, heap, current, max, mask, next_resize>>
             /\ calls' = <<>>]_vars

\* C11 witness: a put of a key that is not held, into a bucket whose root
\* is taken, has returned false on a table with a chain node.
C11_Witness ==
    /\ status = "live"
    /\ last.op = "put"
    /\ ~last.ret
    /\ KeyRef(last.key) = NullRef
    /\ DOMAIN heap # {}

\* C14: put(NULL, NULL) returns true, writes no slot, leaves current as it
\* was and calls no destructor.
C14_DegeneratePut ==
    [][(status = "live" /\ last'.op = "put"
           /\ last'.key = NULL /\ last'.value = NULL)
          => /\ last'.ret
             /\ status' = "live"
             /\ UNCHANGED <<blob, heap, current, max, mask, next_resize>>
             /\ calls' = <<>>]_vars

\* C14 witness: put(NULL, NULL) has returned on a table that holds entries
\* in a root slot and in a chain node, with both destructors set.
C14_Witness ==
    /\ status = "live"
    /\ last = Returned("put", NULL, NULL, TRUE, NULL)
    /\ free_key /\ free_value
    /\ DOMAIN blob # {}
    /\ DOMAIN heap # {}

\* C15: a get, of a key that is held or not, leaves every slot, every chain
\* node and link, current and max as they were and calls no destructor.
C15_GetReadOnly ==
    [][(status = "live" /\ last'.op = "get")
          => /\ UNCHANGED <<blob, heap, current, max, mask, next_resize,
                            key_hash, key_compare, free_key, free_value, status>>
             /\ calls' = <<>>]_vars

\* C15 witness: a get of a key that is not held has returned NULL on a
\* table with entries in a root slot and in a chain node.
C15_Witness ==
    /\ status = "live"
    /\ last.op = "get"
    /\ KeyRef(last.key) = NullRef
    /\ last.out = NULL
    /\ DOMAIN blob # {}
    /\ DOMAIN heap # {}

\* C16: get(k) is NULL on a new table; a put of an equal key that returns
\* makes it the value of that put; any other step leaves it as it was or
\* makes it NULL.  So get(k) is NULL or the value of the latest put of k.
C16_GetSound ==
    /\ \A k \in Keys : uf_hashmap_get(k) = NULL
    /\ [][(status = "live" /\ status' = "live")
             => \A k \in Keys :
                   IF PutReturned(last') /\ compare(last'.key, k)
                   THEN table_get(blob', heap', mask', k) = last'.value
                   ELSE table_get(blob', heap', mask', k)
                          \in {NULL, uf_hashmap_get(k)}]_vars

\* C16 witness: a put has returned while another key of its bucket answers
\* with its value from a chain node and a third key of the bucket is not
\* held.
C16_Witness ==
    /\ status = "live"
    /\ PutReturned(last)
    /\ last.key = 129
    /\ uf_hashmap_get(257) # NULL
    /\ KeyRef(257)[1] = "heap"
    /\ KeyRef(1) = NullRef
    /\ uf_hashmap_get(1) = NULL

\* C17: a put of a key that is not held, which claims a root slot that was
\* never given an entry or allocates a chain node, calls no destructor.
C17_FreshPutNoDestructor ==
    [][\A k \in Keys :
          LET root == BlobRef(uf_hashmap_initial_bucket(hash_fn(k)))
          IN  ( /\ status = "live"
                /\ \/ ~HoldsEntry(root)
                   \/ put_walk(root, k).candidate = NullRef
                /\ status' = "live"
                /\ PutReturned(last')
                /\ last'.key = k )
              => calls' = <<>>]_vars

\* C18: a destructor that was not given to uf_hashmap_new_full is never
\* called, by put or by free.
C18_OptionalDestructors ==
    \A j \in 1..Len(calls) :
        /\ calls[j].fn = "free.key" => free_key
        /\ calls[j].fn = "free.value" => free_value
        /\ calls[j].fn # "null.call"

\* C20: after a put, no slot holds a key or a value that the put has passed
\* to its destructor.
C20_NoDestroyedReference ==
    (status = "live" /\ last.op = "put") =>
        \A j \in 1..Len(calls) : \A ref \in Entries :
            calls[j].arg # NULL =>
                /\ calls[j].fn = "free.key" => Node(ref).key # calls[j].arg
                /\ calls[j].fn = "free.value" => Node(ref).value # calls[j].arg

\* C12 as claimed: construction with an absent hash or compare function
\* returns NULL to the caller.
C12_AbsentReturnsNull ==
    [][(status = "unbuilt" /\ status' # "unbuilt"
           /\ (~key_hash' \/ ~key_compare'))
          => status' = "null"]_vars

\* C12 as amended: construction with an absent hash or compare function
\* stops the program at the assert, before anything is allocated; no table
\* and no NULL is returned.
C12_AbsentAborts ==
    [][(status = "unbuilt" /\ status' # "unbuilt"
           /\ (~key_hash' \/ ~key_compare'))
          => /\ status' = "aborted"
             /\ calls' = <<>>
             /\ UNCHANGED <<blob, heap, max, mask, current, next_resize>>]_vars

\* C12 witness: the program was stopped by a construction without a hash
\* function.
C12_Witness ==
    /\ status = "aborted"
    /\ ~key_hash
    /\ key_compare
    /\ last.op = "new"

\* C13: when the blob cannot be allocated, uf_hashmap_new_full returns NULL
\* and no bucket slot of the absent blob is read on the way.
C13_BlobAllocFailure ==
    [][(status = "unbuilt" /\ key_hash' /\ key_compare'
           /\ status' \notin {"unbuilt", "live"}
           /\ max' = UF_HASH_INITIAL_SIZE)
          => /\ status' = "null"
             /\ \A j \in 1..Len(calls') : calls'[j].fn # "read.slot"]_vars

\* C19: uf_hashmap_free releases every chain node once and nothing else
\* node by node, reads the next link of a node only before that node is
\* released, and releases the blob and then the table last, once each;
\* uf_hashmap_free(NULL) does nothing.
C19_PostOrderFree ==
    [][/\ (status = "live" /\ status' = "freed")
            => /\ \A n \in DOMAIN heap :
                     CallCount(calls', "free.node", n) = 1
               /\ \A j \in 1..Len(calls') :
                     /\ calls'[j].fn = "free.node"
                           => /\ calls'[j].arg \in DOMAIN heap
                              /\ j < Len(calls') - 1
                     /\ calls'[j].fn = "read.next"
                           => \A k \in 1..Len(calls') :
                                 ( /\ calls'[k].fn = "free.node"
                                   /\ calls'[k].arg = calls'[j].arg )
                                 => j < k
               /\ Len(calls') >= 2
               /\ calls'[Len(calls') - 1] = Call("free.blob", 0)
               /\ calls'[Len(calls')] = Call("free.self", 0)
               /\ CallCount(calls', "free.blob", 0) = 1
               /\ CallCount(calls', "free.self", 0) = 1
       /\ (status = "null" /\ last'.op = "free")
            => /\ calls' = <<>>
               /\ UNCHANGED <<blob, heap, max, mask, current, next_resize,
                              status>>]_vars

\* C19 witness: a table with a chain of two nodes has been freed.
C19_Witness ==
    /\ status = "freed"
    /\ \E j \in 1..Len(calls) : \E k \in 1..Len(calls) :
          /\ j + 1 < k
          /\ calls[j].fn = "read.next"
          /\ calls[j + 1].fn = "read.next"
          /\ calls[k].fn = "free.node"
          /\ calls[k].arg = calls[j].arg

(* ---- uf_hashmap_new_full ---- *)
Init ==
    /\ key_hash = TRUE
    /\ key_compare = TRUE
    /\ free_key \in BOOLEAN
    /\ free_value \in BOOLEAN
    /\ max = UF_HASH_INITIAL_SIZE
    /\ mask = UF_HASH_INITIAL_SIZE - 1
    /\ current = 0
    /\ next_resize = (UF_HASH_INITIAL_SIZE * UF_HASH_FILL_NUM) \div UF_HASH_FILL_DEN
    /\ blob = <<>>
    /\ heap = <<>>
    /\ status = "live"
    /\ last = Returned("new", NULL, NULL, TRUE, NULL)
    /\ calls = <<>>
    /\ i = 0

Put == /\ current < MaxCount
       /\ \E key \in Keys, value \in Values :
             uf_hashmap_put(key, value, MaxNodes) /\ i' = i

Lookup == \E key \in Keys : Get(key) /\ i' = i

Free == uf_hashmap_free /\ i' = i

Next == Put \/ Lookup \/ Free

Spec == Init /\ [][Next]_vars

(* ---- callers that construct the table ---- *)
\* Before uf_hashmap_new_full: there is no table object.
InitNew ==
    /\ status = "unbuilt"
    /\ key_hash = FALSE
    /\ key_compare = FALSE
    /\ free_key = FALSE
    /\ free_value = FALSE
    /\ max = 0
    /\ mask = 0
    /\ current = 0
    /\ next_resize = 0
    /\ blob = <<>>
    /\ heap = <<>>
    /\ last = Returned("none", NULL, NULL, TRUE, NULL)
    /\ calls = <<>>
    /\ i = 0

assert_skipped(hash, cmp) == TRUE

\* assert(clone.key.hash); assert(clone.key.compare); as written, that is
\* built without NDEBUG.
assert_passes(hash, cmp) == hash /\ cmp

\* The fields the clone gives the table.
new_fields ==
    /\ max' = UF_HASH_INITIAL_SIZE
    /\ mask' = UF_HASH_INITIAL_SIZE - 1
    /\ current' = 0
    /\ next_resize' =
          (UF_HASH_INITIAL_SIZE * UF_HASH_FILL_NUM) \div UF_HASH_FILL_DEN

\* calloc of the blob returned NULL: uf_hashmap_free(ret) runs its loop over
\* the max buckets of the table and reads blob[0].next of the NULL blob.
\* That is undefined behaviour: the process is killed, or the read gives
\* NULL and free goes on to release the (NULL) blob and the table.
new_blob_failed ==
    /\ new_fields
    /\ UNCHANGED <<blob, heap>>
    /\ last' = Returned("new", NULL, NULL, FALSE, NULL)
    /\ \/ /\ status' = "crashed"
          /\ calls' = <<Call("read.slot", 0)>>
       \/ /\ status' = "null"
          /\ calls' = <<Call("read.slot", 0), Call("free.blob", 0),
                        Call("free.self", 0)>>

\* hash, cmp (the compare argument), key_free and value_free say whether the function pointer
\* handed in is set.
uf_hashmap_new_full(hash, cmp, key_free, value_free) ==
    /\ status = "unbuilt"
    /\ key_hash' = hash
    /\ key_compare' = cmp
    /\ free_key' = key_free
    /\ free_value' = value_free
    /\ IF ~assert_passes(hash, cmp)
       THEN /\ status' = "aborted"
            /\ last' = Returned("new", NULL, NULL, FALSE, NULL)
            /\ calls' = <<>>
            /\ UNCHANGED <<blob, heap, max, mask, current, next_resize>>
       ELSE \/ /\ status' = "null"
               /\ last' = Returned("new", NULL, NULL, FALSE, NULL)
               /\ calls' = <<>>
               /\ UNCHANGED <<blob, heap, max, mask, current, next_resize>>
            \/ new_blob_failed
            \/ /\ status' = "live"
               /\ new_fields
               /\ blob' = <<>>
               /\ heap' = <<>>
               /\ last' = Returned("new", NULL, NULL, TRUE, NULL)
               /\ calls' = <<>>

New == /\ \E hash \in BOOLEAN, cmp \in BOOLEAN,
             key_free \in BOOLEAN, value_free \in BOOLEAN :
             uf_hashmap_new_full(hash, cmp, key_free, value_free)
       /\ i' = i

FreeNull == uf_hashmap_free_null /\ i' = i

NextNew == New \/ Put \/ Lookup \/ Free \/ FreeNull

SpecNew == InitNew /\ [][NextNew]_vars

(* ---- callers that also remove ---- *)
Remove == \E key \in Keys : uf_hashmap_remove(key) /\ i' = i

NextRemove == Put \/ Lookup \/ Free \/ Remove

SpecRemove == Init /\ [][NextRemove]_vars

(* ---- test_map_null_zero ---- *)
\* uf_hashmap_new_full(uf_hashmap_simple_hash, uf_hashmap_simple_equal,
\* NULL, free).
InitSeq ==
    /\ Init
    /\ free_key = FALSE
    /\ free_value = TRUE

\* The pointer asprintf returns for "VALUE: n": one allocation per n.
TestValue(n) == n + 1

\* One turn of the loop: put(i, p) has to return true for the test to go on.
TestPut ==
    /\ i < TestPuts
    /\ last.op \in {"new", "put"}
    /\ last.ret
    /\ uf_hashmap_put(i, TestValue(i), TestPuts)
    /\ i' = i + 1

TestGet ==
    /\ i = TestPuts
    /\ last.op = "put"
    /\ last.ret
    /\ Get(0)
    /\ i' = i

TestFree ==
    /\ last.op = "get"
    /\ uf_hashmap_free
    /\ i' = i

NextSeq == TestPut \/ TestGet \/ TestFree

SpecSeq == InitSeq /\ [][NextSeq]_vars

====
